---------------------------- MODULE Spec2Model ----------------------------
(***************************************************************************)
(* UMS chatbot: the Retrieval Service (rag server: startup, /health,       *)
(* /api/query) and the Proxy Gateway (server/index.js: /api/query,         *)
(* /api/rag-health, 404 handler, error handler).                            *)
(*                                                                         *)
(* JavaScript values are records [t, s, n]: t the typeof, s the characters *)
(* of a string, n the value of a number.  Texts sent in response bodies    *)
(* are records [k, s, id, off, len]: k = "msg" a literal of the source,    *)
(* k = "kb" a chunk of the knowledge base, k = "raw" the message of a      *)
(* caught error, k = "opaque" a body produced outside this repository.     *)
(* A response body is a record whose fields are the JSON fields sent.      *)
(***************************************************************************)
EXTENDS Integers, Sequences, FiniteSets, TLC

VARIABLES
    kbFile,          \* ums_paths.json as found on disk (input of the run)
    ragPc,           \* position of startServer / initializeRAG
    documents,       \* initializeRAG: documents
    totalDocuments,  \* module variable totalDocuments
    splitDocs,       \* initializeRAG: splitDocs
    vectorstore,     \* module variable vectorstore
    startupFailed,   \* the catch block of initializeRAG has run
    ragQ,            \* question of the last request handled by the rag server
    ragResp,         \* last response sent by the rag server
    ragSearches,     \* similaritySearchWithScore calls made for that request
    RAG_API_URL,     \* proxy: process.env.RAG_API_URL is set
    NODE_ENV,        \* proxy: process.env.NODE_ENV
    proxyPc,         \* proxy: "idle" or "forwarding" (awaiting axios.post)
    proxyQ,          \* question of the request the proxy is handling / handled last
    proxyResp,       \* last response sent by the proxy
    proxySent,       \* responses sent for the current /api/query request
    outbound,        \* axios calls made for the current proxy request
    axiosResult,     \* outcome of the last axios.post of /api/query
    auxResp,         \* last response of /api/rag-health, the 404 and the error handler
    nreq             \* requests issued so far (bounded)

ragVars == <<kbFile, ragPc, documents, totalDocuments, splitDocs, vectorstore,
             startupFailed>>
ragStartVars == <<kbFile, ragPc, documents, splitDocs, startupFailed>>
ragReqVars == <<ragQ, ragResp, ragSearches>>
proxyCfg == <<RAG_API_URL, NODE_ENV>>
proxyVars == <<proxyPc, proxyQ, proxyResp, proxySent, outbound, axiosResult, auxResp>>
vars == <<kbFile, ragPc, documents, totalDocuments, splitDocs, vectorstore,
          startupFailed, ragQ, ragResp, ragSearches, RAG_API_URL, NODE_ENV,
          proxyPc, proxyQ, proxyResp, proxySent, outbound, axiosResult, auxResp,
          nreq>>

(***************************************************************************)
(* Bounds of the model.                                                    *)
(***************************************************************************)
MaxQLen == 2
MaxRequests == 2

(***************************************************************************)
(* JavaScript values of req.body.question.                                 *)
(***************************************************************************)
Chars == {" ", "a"}

Whitespace == {" "}

RECURSIVE SeqsUpTo(_)
SeqsUpTo(n) ==
    IF n = 0 THEN {<<>>}
    ELSE LET shorter == SeqsUpTo(n - 1)
         IN shorter \cup {Append(s, c) : s \in {x \in shorter : Len(x) = n - 1}, c \in Chars}

JSUndefined == [t |-> "undefined", s |-> <<>>, n |-> 0]

JSString(s) == [t |-> "string", s |-> s, n |-> 0]

JSNumber(n) == [t |-> "number", s |-> <<>>, n |-> n]

Questions ==
    {JSUndefined} \cup {JSString(s) : s \in SeqsUpTo(MaxQLen)} \cup {JSNumber(0), JSNumber(7)}

\* ToBoolean: undefined, "" and 0 are falsy
Truthy(v) ==
    CASE v.t = "undefined" -> FALSE
      [] v.t = "string" -> Len(v.s) > 0
      [] v.t = "number" -> v.n # 0
      [] OTHER -> TRUE

RECURSIVE TrimStart(_)
TrimStart(s) ==
    IF s # <<>> /\ Head(s) \in Whitespace THEN TrimStart(Tail(s)) ELSE s

RECURSIVE TrimEnd(_)
TrimEnd(s) ==
    IF s # <<>> /\ s[Len(s)] \in Whitespace THEN TrimEnd(SubSeq(s, 1, Len(s) - 1)) ELSE s

\* String.prototype.trim
Trim(s) == TrimEnd(TrimStart(s))

(***************************************************************************)
(* Texts and response bodies.                                              *)
(***************************************************************************)
Msg(m) == [k |-> "msg", s |-> m, id |-> 0, off |-> 0, len |-> 0]

Raw(m) == [k |-> "raw", s |-> m, id |-> 0, off |-> 0, len |-> 0]

Opaque == [k |-> "opaque", s |-> "", id |-> 0, off |-> 0, len |-> 0]

PageContent(c) == [k |-> "kb", s |-> "", id |-> c.id, off |-> c.off, len |-> c.len]

NoResp == [status |-> 0, body |-> [none |-> TRUE]]

(***************************************************************************)
(* Retrieval Service: knowledge base, chunking, index.                     *)
(***************************************************************************)
chunkSize == 200
chunkOverlap == 20
TopK == 3

Entry(i, l) == [id |-> i, len |-> l]

\* the states of ums_paths.json: absent, not a categorised mapping, or a
\* mapping category -> list of paths (here the lists, in category order)
KbFiles ==
    { [kind |-> "missing", cats |-> <<>>],
      [kind |-> "malformed", cats |-> <<>>],
      [kind |-> "ok", cats |-> <<>>],
      [kind |-> "ok", cats |-> << <<Entry(1, 60)>> >>],
      [kind |-> "ok", cats |-> << <<Entry(1, 60)>>, <<Entry(2, 200), Entry(3, 250)>> >>] }

\* for (const [category, paths] of Object.entries(...)) documents.push(...paths)
RECURSIVE Flatten(_)
Flatten(cats) ==
    IF cats = <<>> THEN <<>> ELSE Head(cats) \o Flatten(Tail(cats))

\* length-based windows of one entry: chunkSize wide, chunkOverlap shared
RECURSIVE Windows(_, _)
Windows(e, off) ==
    IF e.len - off <= chunkSize
    THEN << [id |-> e.id, off |-> off, len |-> e.len - off] >>
    ELSE << [id |-> e.id, off |-> off, len |-> chunkSize] >>
         \o Windows(e, off + chunkSize - chunkOverlap)

RECURSIVE SplitDocuments(_)
SplitDocuments(docs) ==
    IF docs = <<>> THEN <<>>
    ELSE Windows(Head(docs), 0) \o SplitDocuments(Tail(docs))

NullStore == [built |-> FALSE, docs |-> <<>>]

FaissStore(docs) == [built |-> TRUE, docs |-> docs]

\* stand-in for the embedding distance between a question and a chunk: a
\* fixed function of the two texts
Distance(q, c) == (Len(q.s) * 2 + c.id + c.off) % 4

RECURSIVE SortByDistance(_, _)
SortByDistance(q, cs) ==
    IF cs = <<>> THEN <<>>
    ELSE LET best == CHOOSE i \in 1..Len(cs) :
                        \A j \in 1..Len(cs) :
                            \/ Distance(q, cs[i]) < Distance(q, cs[j])
                            \/ (Distance(q, cs[i]) = Distance(q, cs[j]) /\ i <= j)
             rest == [j \in 1..(Len(cs) - 1) |-> IF j < best THEN cs[j] ELSE cs[j + 1]]
         IN <<cs[best]>> \o SortByDistance(q, rest)

\* vectorstore.similaritySearchWithScore(question, k): the k nearest chunks
SimilaritySearch(vs, q, k) ==
    LET sorted == SortByDistance(q, vs.docs)
    IN SubSeq(sorted, 1, IF Len(sorted) < k THEN Len(sorted) ELSE k)


(***************************************************************************)
(* Retrieval Service: POST /api/query and GET /health.                     *)
(***************************************************************************)
RagBody(text) == [answer |-> text]

\* the handler without its readiness guard: the search runs on whatever
\* vectorstore holds, and a null store throws inside the try
RagQueryHandler_NoReadyCheck(question, vs, providerOk) ==
    IF ~Truthy(question)
    THEN [status |-> 200, body |-> RagBody(Msg("No question provided.")), searches |-> 0]
    ELSE IF vs # NullStore /\ providerOk /\ question.t = "string"
    THEN LET similarDocs == SimilaritySearch(vs, question, TopK)
         IN [status |-> 200,
             body |-> RagBody(IF Len(similarDocs) > 0
                              THEN PageContent(similarDocs[1])
                              ELSE Msg("Sorry, no relevant answer found.")),
             searches |-> 1]
    ELSE [status |-> 500, body |-> RagBody(Msg("Error processing query.")),
          searches |-> IF vs # NullStore THEN 1 ELSE 0]

\* the handler searching a second time when the first search throws
RagQueryHandler_RetrySearch(question, vs, providerOk) ==
    IF ~Truthy(question)
    THEN [status |-> 200, body |-> RagBody(Msg("No question provided.")), searches |-> 0]
    ELSE IF vs = NullStore
    THEN [status |-> 503, body |-> RagBody(Msg("Vector store not ready.")), searches |-> 0]
    ELSE IF providerOk /\ question.t = "string"
    THEN LET similarDocs == SimilaritySearch(vs, question, TopK)
         IN [status |-> 200,
             body |-> RagBody(IF Len(similarDocs) > 0
                              THEN PageContent(similarDocs[1])
                              ELSE Msg("Sorry, no relevant answer found.")),
             searches |-> 1]
    ELSE [status |-> 500, body |-> RagBody(Msg("Error processing query.")), searches |-> 2]

\* the handler answering with the last of the candidates returned
RagQueryHandler_LastCandidate(question, vs, providerOk) ==
    IF ~Truthy(question)
    THEN [status |-> 200, body |-> RagBody(Msg("No question provided.")), searches |-> 0]
    ELSE IF vs = NullStore
    THEN [status |-> 503, body |-> RagBody(Msg("Vector store not ready.")), searches |-> 0]
    ELSE IF providerOk /\ question.t = "string"
    THEN LET similarDocs == SimilaritySearch(vs, question, TopK)
         IN [status |-> 200,
             body |-> RagBody(IF Len(similarDocs) > 0
                              THEN PageContent(similarDocs[Len(similarDocs)])
                              ELSE Msg("Sorry, no relevant answer found.")),
             searches |-> 1]
    ELSE [status |-> 500, body |-> RagBody(Msg("Error processing query.")), searches |-> 1]

\* the handler answering an empty result with status 404
RagQueryHandler_EmptyIs404(question, vs, providerOk) ==
    IF ~Truthy(question)
    THEN [status |-> 200, body |-> RagBody(Msg("No question provided.")), searches |-> 0]
    ELSE IF vs = NullStore
    THEN [status |-> 503, body |-> RagBody(Msg("Vector store not ready.")), searches |-> 0]
    ELSE IF providerOk /\ question.t = "string"
    THEN LET similarDocs == SimilaritySearch(vs, question, TopK)
         IN [status |-> IF Len(similarDocs) > 0 THEN 200 ELSE 404,
             body |-> RagBody(IF Len(similarDocs) > 0
                              THEN PageContent(similarDocs[1])
                              ELSE Msg("Sorry, no relevant answer found.")),
             searches |-> 1]
    ELSE [status |-> 500, body |-> RagBody(Msg("Error processing query.")), searches |-> 1]

\* app.post("/api/query"): question is req.body.question, vs the module
\* variable vectorstore, providerOk whether the embedding call of the search
\* succeeds; searches counts the similaritySearchWithScore calls made
RagQueryHandler(question, vs, providerOk) ==
    IF ~Truthy(question)
    THEN [status |-> 200, body |-> RagBody(Msg("No question provided.")), searches |-> 0]
    ELSE IF vs = NullStore
    THEN [status |-> 503, body |-> RagBody(Msg("Vector store not ready.")), searches |-> 0]
    ELSE IF providerOk /\ question.t = "string"
    THEN LET similarDocs == SimilaritySearch(vs, question, TopK)
         IN [status |-> 200,
             body |-> RagBody(IF Len(similarDocs) > 0
                              THEN PageContent(similarDocs[1])
                              ELSE Msg("Sorry, no relevant answer found.")),
             searches |-> 1]
    ELSE [status |-> 500, body |-> RagBody(Msg("Error processing query.")), searches |-> 1]

\* the handler reporting the number of chunks in the index
RagHealthHandler_ChunkCount(vs, total) ==
    [status |-> 200,
     body |-> [status |-> Msg("RAG server is running"),
               vectorstore_ready |-> (vs # NullStore),
               total_documents |-> Len(vs.docs)]]

\* app.get("/health")
RagHealthHandler(vs, total) ==
    [status |-> 200,
     body |-> [status |-> Msg("RAG server is running"),
               vectorstore_ready |-> (vs # NullStore),
               total_documents |-> total]]

(***************************************************************************)
(* Retrieval Service: startServer / initializeRAG.                         *)
(***************************************************************************)
\* a catch block that logs and returns: startServer goes on to listen
StartupFail_NoExit ==
    /\ ragPc' = "built"
    /\ startupFailed' = TRUE

\* catch (error) { console.error(...); process.exit(1); }
StartupFail ==
    /\ ragPc' = "exited"
    /\ startupFailed' = TRUE

\* await fs.readFile("ums_paths.json", "utf-8")
RagReadFile ==
    /\ ragPc = "init"
    /\ IF kbFile.kind = "missing"
       THEN StartupFail
       ELSE ragPc' = "read" /\ UNCHANGED startupFailed
    /\ UNCHANGED <<kbFile, documents, totalDocuments, splitDocs, vectorstore,
                   ragReqVars, proxyCfg, proxyVars, nreq>>

\* JSON.parse, the flattening loop, totalDocuments = documents.length
RagLoadDocuments ==
    /\ ragPc = "read"
    /\ IF kbFile.kind = "malformed"
       THEN StartupFail /\ UNCHANGED <<documents, totalDocuments>>
       ELSE /\ documents' = Flatten(kbFile.cats)
            /\ totalDocuments' = Len(Flatten(kbFile.cats))
            /\ ragPc' = "splitting"
            /\ UNCHANGED startupFailed
    /\ UNCHANGED <<kbFile, splitDocs, vectorstore, ragReqVars, proxyCfg, proxyVars, nreq>>

\* await splitter.splitDocuments(langchainDocs): resolves or rejects
RagSplit ==
    /\ ragPc = "splitting"
    /\ \E ok \in BOOLEAN :
          IF ok
          THEN /\ splitDocs' = SplitDocuments(documents)
               /\ ragPc' = "embedding"
               /\ UNCHANGED startupFailed
          ELSE StartupFail /\ UNCHANGED splitDocs
    /\ UNCHANGED <<kbFile, documents, totalDocuments, vectorstore, ragReqVars,
                   proxyCfg, proxyVars, nreq>>

\* vectorstore = await FaissStore.fromDocuments(splitDocs, embeddings):
\* the bulk embedding call resolves or rejects
RagBuildIndex ==
    /\ ragPc = "embedding"
    /\ \E ok \in BOOLEAN :
          IF ok
          THEN /\ vectorstore' = FaissStore(splitDocs)
               /\ ragPc' = "built"
               /\ UNCHANGED startupFailed
          ELSE StartupFail /\ UNCHANGED vectorstore
    /\ UNCHANGED <<kbFile, documents, totalDocuments, splitDocs, ragReqVars,
                   proxyCfg, proxyVars, nreq>>

\* startServer calling app.listen without awaiting initializeRAG
CanListen_NoAwait == ragPc \in {"init", "read", "splitting", "embedding", "built"}

\* startServer: await initializeRAG(); app.listen(...)
CanListen == ragPc = "built"

RagListen ==
    /\ CanListen
    /\ ragPc' = "listening"
    /\ UNCHANGED <<kbFile, documents, totalDocuments, splitDocs, vectorstore,
                   startupFailed, ragReqVars, proxyCfg, proxyVars, nreq>>

\* the server accepts connections
Listening == ragPc = "listening"

\* the handler dropping the index when a search fails
RagServeQuery_ResetOnError(q, ok) ==
    LET r == RagQueryHandler(q, vectorstore, ok)
    IN /\ ragQ' = q
       /\ ragResp' = [status |-> r.status, body |-> r.body]
       /\ ragSearches' = r.searches
       /\ vectorstore' = IF r.status = 500 THEN NullStore ELSE vectorstore
       /\ UNCHANGED totalDocuments

\* one POST /api/query handled by the rag server: the handler reads the
\* module variables and assigns neither
RagServeQuery(q, ok) ==
    LET r == RagQueryHandler(q, vectorstore, ok)
    IN /\ ragQ' = q
       /\ ragResp' = [status |-> r.status, body |-> r.body]
       /\ ragSearches' = r.searches
       /\ UNCHANGED <<vectorstore, totalDocuments>>

\* a client posts to the rag server directly
RagQuery ==
    /\ Listening
    /\ nreq < MaxRequests
    /\ \E q \in Questions, ok \in BOOLEAN : RagServeQuery(q, ok)
    /\ nreq' = nreq + 1
    /\ UNCHANGED <<ragStartVars, proxyCfg, proxyVars>>

RagHealth ==
    /\ Listening
    /\ nreq < MaxRequests
    /\ ragQ' = JSUndefined
    /\ ragResp' = RagHealthHandler(vectorstore, totalDocuments)
    /\ ragSearches' = 0
    /\ nreq' = nreq + 1
    /\ UNCHANGED <<ragVars, proxyCfg, proxyVars>>


(***************************************************************************)
(* Proxy Gateway: outcomes of an axios call.                               *)
(***************************************************************************)
NoData == [none |-> TRUE]

\* a body produced by something other than the rag server (hosting platform)
OpaqueData == [html |-> Opaque]

\* resolved: status 2xx
AxiosOk(status, data) ==
    [ok |-> TRUE, code |-> "", hasResponse |-> TRUE, status |-> status, data |-> data,
     hasRequest |-> TRUE, message |-> ""]

\* rejected with error.response: the server answered with a non-2xx status
AxiosBadStatus(status, data) ==
    [ok |-> FALSE, code |-> "ERR_BAD_RESPONSE", hasResponse |-> TRUE, status |-> status,
     data |-> data, hasRequest |-> TRUE, message |-> "Request failed with status code"]

\* rejected after the timeout option elapsed: error.code ECONNABORTED,
\* error.request set, no error.response
AxiosTimeout ==
    [ok |-> FALSE, code |-> "ECONNABORTED", hasResponse |-> FALSE, status |-> 0,
     data |-> NoData, hasRequest |-> TRUE, message |-> "timeout exceeded"]

\* rejected without any response: connection refused, DNS failure, reset
AxiosNoResponse ==
    [ok |-> FALSE, code |-> "ECONNREFUSED", hasResponse |-> FALSE, status |-> 0,
     data |-> NoData, hasRequest |-> TRUE, message |-> "connect ECONNREFUSED"]

\* thrown before a request exists: neither error.request nor error.response
AxiosSetupError ==
    [ok |-> FALSE, code |-> "", hasResponse |-> FALSE, status |-> 0,
     data |-> NoData, hasRequest |-> FALSE, message |-> "Invalid URL"]

NoAxios ==
    [ok |-> FALSE, code |-> "none", hasResponse |-> FALSE, status |-> 0,
     data |-> NoData, hasRequest |-> FALSE, message |-> ""]

AxiosOf(status, data) ==
    IF status \in 200..299 THEN AxiosOk(status, data) ELSE AxiosBadStatus(status, data)

\* outcomes that do not involve the rag server's handlers
AxiosForeignOutcomes ==
    {AxiosTimeout, AxiosNoResponse, AxiosSetupError}
        \cup {AxiosOf(s, OpaqueData) : s \in {200, 404, 502}}

(***************************************************************************)
(* Proxy Gateway: POST /api/query.                                         *)
(***************************************************************************)
ValidationResponse ==
    [status |-> 400,
     body |-> [error |-> Msg("Question is required"),
               answer |-> Msg("Please provide a valid question to get an answer.")]]

ConfigErrorResponse ==
    [status |-> 500,
     body |-> [error |-> Msg("Server configuration error"),
               answer |-> Msg("The server is not properly configured. Please contact support.")]]

\* validation that only tests !question
ProxyPreForward_FalsyOnly(question, url) ==
    IF ~Truthy(question) THEN ValidationResponse
    ELSE IF ~url THEN ConfigErrorResponse
    ELSE NoResp

\* the handler without its RAG_API_URL check
ProxyPreForward_NoConfigCheck(question, url) ==
    IF ~Truthy(question) \/ question.t # "string" \/ ~Truthy(JSString(Trim(question.s)))
    THEN ValidationResponse
    ELSE NoResp

\* the part of the handler before axios.post: the response it returns, or
\* NoResp when it goes on to forward (url: RAG_API_URL is set)
ProxyPreForward(question, url) ==
    IF ~Truthy(question) \/ question.t # "string" \/ ~Truthy(JSString(Trim(question.s)))
    THEN ValidationResponse
    ELSE IF ~url THEN ConfigErrorResponse
    ELSE NoResp

TimeoutResponse ==
    [status |-> 504,
     body |-> [error |-> Msg("Request timeout"),
               answer |-> Msg("The request took too long to process. Please try again with a simpler question.")]]

UnavailableResponse ==
    [status |-> 503,
     body |-> [error |-> Msg("RAG API unavailable"),
               answer |-> Msg("The AI service is currently unavailable. Please try again in a moment.")]]

InternalErrorResponse ==
    [status |-> 500,
     body |-> [error |-> Msg("Internal server error"),
               answer |-> Msg("An unexpected error occurred. Please try again.")]]

DownstreamBody ==
    [error |-> Msg("Error from RAG API"),
     answer |-> Msg("Sorry, there was an error processing your question. Please try again.")]

\* details: undefined is dropped when the body is serialised
DownstreamResponse(err, env) ==
    [status |-> err.status,
     body |-> IF env = "development"
              THEN [error |-> DownstreamBody.error, answer |-> DownstreamBody.answer,
                    details |-> err.data]
              ELSE DownstreamBody]

\* the catch block testing error.request before error.code
ProxyCatch_RequestFirst(err, env) ==
    IF err.hasRequest /\ ~err.hasResponse THEN UnavailableResponse
    ELSE IF err.code = "ECONNABORTED" THEN TimeoutResponse
    ELSE IF err.hasResponse THEN DownstreamResponse(err, env)
    ELSE InternalErrorResponse

\* the catch block sending error.message with the 503
ProxyCatch_LeakMessage(err, env) ==
    IF err.code = "ECONNABORTED" THEN TimeoutResponse
    ELSE IF err.hasResponse THEN DownstreamResponse(err, env)
    ELSE IF err.hasRequest
    THEN [status |-> 503,
          body |-> [error |-> UnavailableResponse.body.error,
                    answer |-> UnavailableResponse.body.answer,
                    message |-> Raw(err.message)]]
    ELSE InternalErrorResponse

\* the catch block sending details whatever NODE_ENV is
ProxyCatch_AlwaysDetails(err, env) ==
    IF err.code = "ECONNABORTED" THEN TimeoutResponse
    ELSE IF err.hasResponse THEN DownstreamResponse(err, "development")
    ELSE IF err.hasRequest THEN UnavailableResponse
    ELSE InternalErrorResponse

\* the catch block answering a timeout with 408
ProxyCatch_Timeout408(err, env) ==
    IF err.code = "ECONNABORTED"
    THEN [status |-> 408, body |-> TimeoutResponse.body]
    ELSE IF err.hasResponse THEN DownstreamResponse(err, env)
    ELSE IF err.hasRequest THEN UnavailableResponse
    ELSE InternalErrorResponse

\* catch (error) of /api/query
ProxyCatch(err, env) ==
    IF err.code = "ECONNABORTED" THEN TimeoutResponse
    ELSE IF err.hasResponse THEN DownstreamResponse(err, env)
    ELSE IF err.hasRequest THEN UnavailableResponse
    ELSE InternalErrorResponse

\* the success path re-wrapping the downstream body
ProxyAfterForward_WrapData(result, env) ==
    IF result.ok THEN [status |-> 200, body |-> [answer |-> result.data]]
    ELSE ProxyCatch(result, env)

\* after the await: res.json(response.data), or the catch block
ProxyAfterForward(result, env) ==
    IF result.ok THEN [status |-> 200, body |-> result.data]
    ELSE ProxyCatch(result, env)

\* request received: validation and configuration, then axios.post is issued
ProxyQueryStart ==
    /\ proxyPc = "idle"
    /\ nreq < MaxRequests
    /\ \E q \in Questions :
          LET early == ProxyPreForward(q, RAG_API_URL)
          IN /\ proxyQ' = q
             /\ axiosResult' = NoAxios
             /\ IF early # NoResp
                THEN /\ proxyResp' = early
                     /\ proxySent' = 1
                     /\ outbound' = 0
                     /\ proxyPc' = "idle"
                ELSE /\ proxyResp' = NoResp
                     /\ proxySent' = 0
                     /\ outbound' = 1
                     /\ proxyPc' = "forwarding"
    /\ nreq' = nreq + 1
    /\ UNCHANGED <<ragVars, ragReqVars, proxyCfg, auxResp>>

\* the handler calling axios.post once more after a failed forward
ProxyRespond_RetryOnce(result) ==
    IF ~result.ok /\ outbound < 2
    THEN /\ axiosResult' = result
         /\ outbound' = outbound + 1
         /\ UNCHANGED <<proxyResp, proxySent, proxyPc, proxyQ, auxResp>>
    ELSE /\ axiosResult' = result
         /\ proxyResp' = ProxyAfterForward(result, NODE_ENV)
         /\ proxySent' = proxySent + 1
         /\ proxyPc' = "idle"
         /\ UNCHANGED <<proxyQ, outbound, auxResp>>

\* the timeout branch of the catch without its return: the 504 is followed
\* by the 500 of the last branch
ProxyRespond_NoReturn(result) ==
    /\ axiosResult' = result
    /\ proxyResp' = ProxyAfterForward(result, NODE_ENV)
    /\ proxySent' = IF result = AxiosTimeout THEN proxySent + 2 ELSE proxySent + 1
    /\ proxyPc' = "idle"
    /\ UNCHANGED <<proxyQ, outbound, auxResp>>

\* the await of axios.post settles: one response is sent
ProxyRespond(result) ==
    /\ axiosResult' = result
    /\ proxyResp' = ProxyAfterForward(result, NODE_ENV)
    /\ proxySent' = proxySent + 1
    /\ proxyPc' = "idle"
    /\ UNCHANGED <<proxyQ, outbound, auxResp>>

\* the forward reaches the rag server, which handles { question: question.trim() }
ProxyForwardDelivered ==
    /\ proxyPc = "forwarding"
    /\ Listening
    /\ \E ok \in BOOLEAN :
          LET q == JSString(Trim(proxyQ.s))
              r == RagQueryHandler(q, vectorstore, ok)
          IN /\ RagServeQuery(q, ok)
             /\ ProxyRespond(AxiosOf(r.status, r.body))
    /\ UNCHANGED <<ragStartVars, proxyCfg, nreq>>

\* the forward times out, gets no response, fails before sending, or is
\* answered by something in front of the rag server
ProxyForwardOther ==
    /\ proxyPc = "forwarding"
    /\ \E result \in AxiosForeignOutcomes : ProxyRespond(result)
    /\ UNCHANGED <<ragVars, ragReqVars, proxyCfg, nreq>>


(***************************************************************************)
(* Proxy Gateway: GET /api/rag-health, the 404 handler, the error handler. *)
(***************************************************************************)
Timestamp == [k |-> "time", s |-> "", id |-> 0, off |-> 0, len |-> 0]

Echo(what) == [k |-> "echo", s |-> what, id |-> 0, off |-> 0, len |-> 0]

NoAux == [endpoint |-> "none", status |-> 0, body |-> [none |-> TRUE]]

\* the handler relaying the status of a failed probe instead of 503
ProxyRagHealthHandler_RelayStatus(url, result) ==
    IF ~url
    THEN [endpoint |-> "rag-health", status |-> 500,
          body |-> [status |-> Msg("error"), message |-> Msg("RAG_API_URL not configured")]]
    ELSE IF result.ok
    THEN [endpoint |-> "rag-health", status |-> 200,
          body |-> [status |-> Msg("connected"),
                    message |-> Msg("RAG API is healthy and reachable"),
                    ragResponse |-> result.data,
                    timestamp |-> Timestamp]]
    ELSE [endpoint |-> "rag-health",
          status |-> IF result.hasResponse THEN result.status ELSE 503,
          body |-> [status |-> Msg("unavailable"),
                    message |-> Msg("RAG API is not reachable"),
                    error |-> Raw(result.message),
                    timestamp |-> Timestamp]]

\* app.get("/api/rag-health"): result is the outcome of axios.get, which is
\* not issued when RAG_API_URL is unset
ProxyRagHealthHandler(url, result) ==
    IF ~url
    THEN [endpoint |-> "rag-health", status |-> 500,
          body |-> [status |-> Msg("error"), message |-> Msg("RAG_API_URL not configured")]]
    ELSE IF result.ok
    THEN [endpoint |-> "rag-health", status |-> 200,
          body |-> [status |-> Msg("connected"),
                    message |-> Msg("RAG API is healthy and reachable"),
                    ragResponse |-> result.data,
                    timestamp |-> Timestamp]]
    ELSE [endpoint |-> "rag-health", status |-> 503,
          body |-> [status |-> Msg("unavailable"),
                    message |-> Msg("RAG API is not reachable"),
                    error |-> Raw(result.message),
                    timestamp |-> Timestamp]]

\* the probe reaches the rag server's /health
ProxyRagHealthDelivered ==
    /\ RAG_API_URL
    /\ Listening
    /\ nreq < MaxRequests
    /\ LET r == RagHealthHandler(vectorstore, totalDocuments)
       IN /\ ragQ' = JSUndefined
          /\ ragResp' = r
          /\ ragSearches' = 0
          /\ auxResp' = ProxyRagHealthHandler(RAG_API_URL, AxiosOf(r.status, r.body))
    /\ nreq' = nreq + 1
    /\ UNCHANGED <<ragVars, proxyCfg, proxyPc, proxyQ, proxyResp, proxySent, outbound,
                   axiosResult>>

\* the probe is not sent (no URL), fails, or is answered by something else
ProxyRagHealthOther ==
    /\ nreq < MaxRequests
    /\ \E result \in AxiosForeignOutcomes :
          auxResp' = ProxyRagHealthHandler(RAG_API_URL, result)
    /\ nreq' = nreq + 1
    /\ UNCHANGED <<ragVars, ragReqVars, proxyCfg, proxyPc, proxyQ, proxyResp, proxySent,
                   outbound, axiosResult>>

\* app.use((req, res) => ...): no route matched
NotFoundHandler ==
    [endpoint |-> "404", status |-> 404,
     body |-> [error |-> Msg("Route not found"),
               path |-> Echo("path"),
               method |-> Echo("method"),
               availableRoutes |-> Msg("GET /, GET /health, POST /api/query, GET /api/rag-health"),
               message |-> Msg("The requested endpoint does not exist")]]

Proxy404 ==
    /\ nreq < MaxRequests
    /\ auxResp' = NotFoundHandler
    /\ nreq' = nreq + 1
    /\ UNCHANGED <<ragVars, ragReqVars, proxyCfg, proxyPc, proxyQ, proxyResp, proxySent,
                   outbound, axiosResult>>

\* errors passed to next(err) by the middleware: the CORS origin callback,
\* the JSON body parser
MiddlewareErrors == {"Not allowed by CORS", "Unexpected token in JSON"}

\* app.use((err, req, res, next) => ...)
ErrorHandler(errMessage, env) ==
    [endpoint |-> "error", status |-> 500,
     body |-> [error |-> Msg("Internal server error"),
               message |-> IF env = "development"
                           THEN Raw(errMessage)
                           ELSE Msg("An unexpected error occurred")]]

ProxyErrorHandler ==
    /\ nreq < MaxRequests
    /\ \E m \in MiddlewareErrors : auxResp' = ErrorHandler(m, NODE_ENV)
    /\ nreq' = nreq + 1
    /\ UNCHANGED <<ragVars, ragReqVars, proxyCfg, proxyPc, proxyQ, proxyResp, proxySent,
                   outbound, axiosResult>>

(***************************************************************************)
(* The two services running: Spec.                                         *)
(***************************************************************************)
Environments == {"production", "development", "unset"}

Init ==
    /\ kbFile \in KbFiles
    /\ ragPc = "init"
    /\ documents = <<>>
    /\ totalDocuments = 0
    /\ splitDocs = <<>>
    /\ vectorstore = NullStore
    /\ startupFailed = FALSE
    /\ ragQ = JSUndefined
    /\ ragResp = NoResp
    /\ ragSearches = 0
    /\ RAG_API_URL \in BOOLEAN
    /\ NODE_ENV \in Environments
    /\ proxyPc = "idle"
    /\ proxyQ = JSUndefined
    /\ proxyResp = NoResp
    /\ proxySent = 0
    /\ outbound = 0
    /\ axiosResult = NoAxios
    /\ auxResp = NoAux
    /\ nreq = 0

Next ==
    \/ RagReadFile
    \/ RagLoadDocuments
    \/ RagSplit
    \/ RagBuildIndex
    \/ RagListen
    \/ RagQuery
    \/ RagHealth
    \/ ProxyQueryStart
    \/ ProxyForwardDelivered
    \/ ProxyForwardOther
    \/ ProxyRagHealthDelivered
    \/ ProxyRagHealthOther
    \/ Proxy404
    \/ ProxyErrorHandler

\* the await of axios.post ends: with a response of the rag server, or with
\* one of the rejections, the timeout of 30000 ms among them
ProxySettle == ProxyForwardDelivered \/ ProxyForwardOther

Spec == Init /\ [][Next]_vars

\* the same program where a pending axios.post does settle: the call is
\* made with timeout: 30000, so the promise is resolved or rejected
LiveSpec == Init /\ [][Next]_vars /\ WF_vars(ProxySettle)

(***************************************************************************)
(* The rag server's handlers as functions of the module state: the express *)
(* app is called with vectorstore and totalDocuments at any value the      *)
(* startup gives them, as a test that mounts the app without listen does.  *)
(***************************************************************************)
HandlerQuery ==
    /\ ragPc # "exited"
    /\ nreq < MaxRequests
    /\ \E q \in Questions, ok \in BOOLEAN : RagServeQuery(q, ok)
    /\ nreq' = nreq + 1
    /\ UNCHANGED <<ragStartVars, proxyCfg, proxyVars>>

HandlerHealth ==
    /\ ragPc # "exited"
    /\ nreq < MaxRequests
    /\ ragQ' = JSUndefined
    /\ ragResp' = RagHealthHandler(vectorstore, totalDocuments)
    /\ ragSearches' = 0
    /\ nreq' = nreq + 1
    /\ UNCHANGED <<ragVars, proxyCfg, proxyVars>>

HandlerNext ==
    \/ RagReadFile
    \/ RagLoadDocuments
    \/ RagSplit
    \/ RagBuildIndex
    \/ RagListen
    \/ HandlerQuery
    \/ HandlerHealth

HandlerSpec == Init /\ [][HandlerNext]_vars


(***************************************************************************)
(* Vocabulary of the properties.                                           *)
(***************************************************************************)
\* the last rag response answers a POST /api/query
RagAnsweredQuery == "answer" \in DOMAIN ragResp.body

\* a step in which the rag server handles a POST /api/query
RagQueryStep == nreq' # nreq /\ "answer" \in DOMAIN ragResp'.body

NotReadyResponse ==
    [status |-> 503, body |-> [answer |-> Msg("Vector store not ready.")]]

NoQuestionResponse ==
    [status |-> 200, body |-> [answer |-> Msg("No question provided.")]]

\* a string made of whitespace only (the empty string included)
BlankString(q) == q.t = "string" /\ \A i \in 1..Len(q.s) : q.s[i] = " "

\* missing, not a string, empty, or whitespace-only
InvalidQuestion(q) == q.t # "string" \/ BlankString(q)

\* the proxy has received a /api/query request
ProxyReceived == proxyPc = "forwarding" \/ proxySent > 0

\* a body carries diagnostic detail of a failure: the message of a caught
\* error, or the downstream error body
HasDiagnostic(body) ==
    \/ "details" \in DOMAIN body
    \/ \E f \in DOMAIN body \cap {"error", "answer", "message"} : body[f].k = "raw"

C2_BlankQuestionValidated ==
    (RagAnsweredQuery /\ BlankString(ragQ))
        => (ragResp = NoQuestionResponse /\ ragSearches = 0)

(***************************************************************************)
(* C3: a proxy /api/query request whose question is missing, not a string, *)
(* empty or whitespace-only gets status 400 with the "provide a valid      *)
(* question" message and no outbound call is made, whether or not          *)
(* RAG_API_URL is set.                                                     *)
(***************************************************************************)
C3_InvalidQuestion400 ==
    (ProxyReceived /\ InvalidQuestion(proxyQ))
        => /\ proxyResp.status = 400
           /\ proxyResp.body.answer = Msg("Please provide a valid question to get an answer.")
           /\ outbound = 0
           /\ proxyPc = "idle"
           /\ axiosResult = NoAxios

C3_Witness ==
    /\ ProxyReceived
    /\ proxyQ = JSString(<<" ">>)
    /\ ~RAG_API_URL
    /\ proxyResp.status = 400

(***************************************************************************)
(* C4: when the forward times out, the /api/query response is status 504   *)
(* with the retry-suggesting message, never the 503 "unavailable" one,     *)
(* although the timed-out call has a request object and no response.       *)
(***************************************************************************)
C4_Timeout504 ==
    (axiosResult.code = "ECONNABORTED" /\ axiosResult.hasRequest /\ ~axiosResult.hasResponse)
        => /\ proxyResp.status = 504
           /\ proxyResp.body.answer =
                 Msg("The request took too long to process. Please try again with a simpler question.")
           /\ proxyResp # UnavailableResponse

C4_Witness ==
    /\ axiosResult = AxiosTimeout
    /\ proxyResp.status = 504

(***************************************************************************)
(* C5: when the forward gets no response at all and did not time out, the  *)
(* /api/query response is status 503 and its body holds only the fixed     *)
(* unavailability message, never the text of the connection error.         *)
(***************************************************************************)
C5_Unreachable503 ==
    (axiosResult.hasRequest /\ ~axiosResult.hasResponse /\ axiosResult.code # "ECONNABORTED")
        => /\ proxyResp.status = 503
           /\ proxyResp.body =
                 [error |-> Msg("RAG API unavailable"),
                  answer |-> Msg("The AI service is currently unavailable. Please try again in a moment.")]
           /\ ~HasDiagnostic(proxyResp.body)

C5_Witness ==
    /\ axiosResult = AxiosNoResponse
    /\ proxyResp.status = 503

(***************************************************************************)
(* C6: when the rag server answers the forward with an error status s, the *)
(* /api/query response has status s and the fixed generic message; the     *)
(* downstream body is sent as details only in a non-production mode and is *)
(* absent in production.                                                   *)
(***************************************************************************)
C6_DownstreamStatusRelayed ==
    (axiosResult.hasResponse /\ ~axiosResult.ok)
        => /\ proxyResp.status = axiosResult.status
           /\ proxyResp.body.error = Msg("Error from RAG API")
           /\ proxyResp.body.answer =
                 Msg("Sorry, there was an error processing your question. Please try again.")
           /\ DOMAIN proxyResp.body \subseteq {"error", "answer", "details"}
           /\ ("details" \in DOMAIN proxyResp.body
                  => (NODE_ENV # "production" /\ proxyResp.body.details = axiosResult.data))
           /\ (NODE_ENV = "production" => "details" \notin DOMAIN proxyResp.body)

C6_Witness ==
    /\ axiosResult.hasResponse
    /\ axiosResult.status = 500
    /\ NODE_ENV = "production"
    /\ proxyResp.status = 500
    /\ "details" \notin DOMAIN proxyResp.body

(***************************************************************************)
(* C7 (as stated): in production mode no response of /api/query,           *)
(* /api/rag-health, the 404 handler or the error handler carries           *)
(* diagnostic detail of a failure.                                         *)
(***************************************************************************)
C7_NoDiagnosticInProduction ==
    NODE_ENV = "production"
        => (~HasDiagnostic(proxyResp.body) /\ ~HasDiagnostic(auxResp.body))

(***************************************************************************)
(* C8: whenever the rag server accepts requests, the index is fully built: *)
(* vectorstore is non-null and holds every chunk of the knowledge base,    *)
(* and no response reports or reveals an absent index.                     *)
(***************************************************************************)
C8_ListeningImpliesBuilt ==
    /\ Listening
          => /\ vectorstore # NullStore
             /\ vectorstore.docs = SplitDocuments(Flatten(kbFile.cats))
    /\ ragResp # NoResp
          => /\ ragResp.status # 503
             /\ ("vectorstore_ready" \in DOMAIN ragResp.body => ragResp.body.vectorstore_ready)

C8_Witness ==
    /\ Listening
    /\ Len(vectorstore.docs) > 1
    /\ "vectorstore_ready" \in DOMAIN ragResp.body

(***************************************************************************)
(* C9: if a startup step fails (file missing or malformed, chunking or     *)
(* embedding failure) the process has exited, is not listening, and has    *)
(* served no request.                                                      *)
(***************************************************************************)
C9_StartupFailureAborts ==
    startupFailed
        => /\ ragPc = "exited"
           /\ ~Listening
           /\ ragResp = NoResp
           /\ vectorstore = NullStore

C9_Witness ==
    /\ startupFailed
    /\ kbFile.kind = "ok"
    /\ totalDocuments > 0
    /\ axiosResult = AxiosNoResponse

(***************************************************************************)
(* C10: with RAG_API_URL unset, every proxy /api/query request with a      *)
(* valid question gets status 500 with the fixed configuration message,    *)
(* no outbound call is made, and the proxy goes on answering requests.     *)
(***************************************************************************)
C10_UnconfiguredGives500 ==
    (ProxyReceived /\ ~RAG_API_URL /\ ~InvalidQuestion(proxyQ))
        => /\ proxyResp.status = 500
           /\ proxyResp.body =
                 [error |-> Msg("Server configuration error"),
                  answer |-> Msg("The server is not properly configured. Please contact support.")]
           /\ outbound = 0
           /\ axiosResult = NoAxios
           /\ proxyPc = "idle"
           /\ proxySent = 1

C10_Witness ==
    /\ ~RAG_API_URL
    /\ ~InvalidQuestion(proxyQ)
    /\ proxyResp.status = 500
    /\ nreq > 1


(***************************************************************************)
(* C11 (as stated): every response of the proxy's POST /api/query has a    *)
(* status in {200, 400, 500, 503, 504}, whatever the request and the       *)
(* outcome of the forward.                                                 *)
(***************************************************************************)
C11_StatusInDocumentedSet ==
    proxySent > 0 => proxyResp.status \in {200, 400, 500, 503, 504}

(***************************************************************************)
(* C11 (amended): every response of the proxy's POST /api/query has a      *)
(* status in {200, 400, 500, 503, 504}, or, when the forward was answered  *)
(* with an error status, exactly that status.                              *)
(***************************************************************************)
C11_StatusDocumentedOrRelayed ==
    proxySent > 0
        => \/ proxyResp.status \in {200, 400, 500, 503, 504}
           \/ /\ axiosResult.hasResponse
              /\ ~axiosResult.ok
              /\ proxyResp.status = axiosResult.status

C11_Witness ==
    /\ proxySent > 0
    /\ axiosResult.hasResponse
    /\ proxyResp.status = 404


\* the last auxiliary response answers GET /api/rag-health
AnsweredRagHealth == auxResp.endpoint = "rag-health"

(***************************************************************************)
(* C12 (as stated): every response of the proxy's GET /api/rag-health has  *)
(* status 200 or 503, in any configuration.                                *)
(***************************************************************************)
C12_RagHealth200Or503 ==
    AnsweredRagHealth => auxResp.status \in {200, 503}

(***************************************************************************)
(* C12 (amended): with RAG_API_URL set, every response of GET              *)
(* /api/rag-health has status 200, relaying the rag server's readiness and *)
(* document count in ragResponse, or status 503; with RAG_API_URL unset    *)
(* the status is 500 with the fixed "not configured" message.              *)
(***************************************************************************)
C12_RagHealthByConfiguration ==
    AnsweredRagHealth
        => /\ RAG_API_URL => auxResp.status \in {200, 503}
           /\ ~RAG_API_URL
                 => /\ auxResp.status = 500
                    /\ auxResp.body.message = Msg("RAG_API_URL not configured")
           /\ auxResp.status = 200
                 => /\ "ragResponse" \in DOMAIN auxResp.body
                    /\ "vectorstore_ready" \in DOMAIN auxResp.body.ragResponse
                          => /\ auxResp.body.ragResponse.vectorstore_ready = (vectorstore # NullStore)
                             /\ auxResp.body.ragResponse.total_documents = totalDocuments
           /\ auxResp.status = 503 => "ragResponse" \notin DOMAIN auxResp.body

C12_Witness ==
    /\ AnsweredRagHealth
    /\ auxResp.status = 200
    /\ "vectorstore_ready" \in DOMAIN auxResp.body.ragResponse
    /\ auxResp.body.ragResponse.total_documents = 3


(***************************************************************************)
(* C13: whenever the forward succeeds, the proxy's /api/query response has *)
(* status 200 and its body is the downstream response body unchanged; when *)
(* the rag server answered it, that is the body the rag server sent.       *)
(***************************************************************************)
C13_SuccessRelayedVerbatim ==
    [][(proxyPc = "forwarding" /\ proxyPc' = "idle" /\ axiosResult'.ok)
          => /\ proxyResp'.status = 200
             /\ proxyResp'.body = axiosResult'.data
             /\ (ragResp' # ragResp => proxyResp'.body = ragResp'.body)]_vars

C13_Witness ==
    /\ axiosResult.ok
    /\ proxySent = 1
    /\ proxyResp.status = 200
    /\ proxyResp.body = ragResp.body
    /\ proxyResp.body.answer.k = "kb"

(***************************************************************************)
(* C14: for every proxy /api/query request at most one outbound call is    *)
(* made, and once that call has settled (failed or not) the response has   *)
(* been sent without a second attempt.                                     *)
(***************************************************************************)
C14_AtMostOneOutboundCall ==
    /\ outbound <= 1
    /\ proxyPc = "forwarding" => (outbound = 1 /\ proxySent = 0 /\ axiosResult = NoAxios)
    /\ axiosResult # NoAxios
          => (outbound = 1 /\ proxySent = 1 /\ proxyPc = "idle" /\ proxyResp # NoResp)

C14_Witness ==
    /\ axiosResult # NoAxios
    /\ ~axiosResult.ok
    /\ outbound = 1
    /\ proxySent = 1
    /\ proxyResp.status = 503


RagErrorResponse ==
    [status |-> 500, body |-> [answer |-> Msg("Error processing query.")]]

FallbackResponse ==
    [status |-> 200, body |-> [answer |-> Msg("Sorry, no relevant answer found.")]]

\* the index startup builds from the knowledge base on disk
BuiltIndex == [built |-> TRUE, docs |-> SplitDocuments(Flatten(kbFile.cats))]

(***************************************************************************)
(* C15: when the embedding call or the search of one rag query fails, that *)
(* request gets status 500 with the fixed message after a single search    *)
(* call; the service is still listening with the index it built, and a     *)
(* query whose search succeeds is then answered with status 200.           *)
(***************************************************************************)
C15_SearchFailureFailsOneRequest ==
    /\ ragSearches <= 1
    /\ (RagAnsweredQuery /\ ragResp.status = 500)
          => /\ ragResp = RagErrorResponse
             /\ ragSearches = 1
             /\ Listening
             /\ vectorstore = BuiltIndex
             /\ \A q \in {x \in Questions : x.t = "string" /\ Truthy(x)} :
                   RagQueryHandler(q, vectorstore, TRUE).status = 200

\* a forwarded query failed in the rag server (500 relayed to the proxy) and
\* a later query was answered from the index
C15_Witness ==
    /\ axiosResult.hasResponse
    /\ axiosResult.status = 500
    /\ axiosResult.data = RagErrorResponse.body
    /\ RagAnsweredQuery
    /\ ragResp.status = 200
    /\ ragResp.body.answer.k = "kb"
    /\ vectorstore = BuiltIndex


\* chunk c of the index is at least as close to question q as every other
Closest(q, c, docs) ==
    \A j \in 1..Len(docs) : Distance(q, c) <= Distance(q, docs[j])

(***************************************************************************)
(* C16: for a non-empty question served by the ready rag server, a search  *)
(* that returns candidates is answered (status 200) with exactly the text  *)
(* of the closest chunk, and a search that returns none with the fixed     *)
(* fallback string, status 200; the only other outcome is the 500 of a     *)
(* failed search.                                                          *)
(***************************************************************************)
C16_AnswerIsClosestChunk ==
    (Listening /\ RagAnsweredQuery /\ Truthy(ragQ))
        => /\ ragResp.status \in {200, 500}
           /\ ragResp.status = 200
                 => IF vectorstore.docs = <<>>
                    THEN ragResp = FallbackResponse
                    ELSE \E i \in 1..Len(vectorstore.docs) :
                            /\ ragResp.body.answer = PageContent(vectorstore.docs[i])
                            /\ Closest(ragQ, vectorstore.docs[i], vectorstore.docs)

\* the closest chunk is not the first of the index, and is the answer
C16_Witness ==
    /\ Listening
    /\ RagAnsweredQuery
    /\ Truthy(ragQ)
    /\ ragResp.status = 200
    /\ Len(vectorstore.docs) > 3
    /\ ragResp.body.answer.k = "kb"
    /\ ragResp.body.answer # PageContent(vectorstore.docs[1])


\* ums_paths.json holds a mapping with zero entries
EmptyKb == kbFile.kind = "ok" /\ Flatten(kbFile.cats) = <<>>

\* the last rag response answers GET /health
RagAnsweredHealth == "vectorstore_ready" \in DOMAIN ragResp.body

RECURSIVE CountEntries(_)
CountEntries(cats) ==
    IF cats = <<>> THEN 0 ELSE Len(Head(cats)) + CountEntries(Tail(cats))

\* a step in which the rag server answers GET /health
RagHealthStep == nreq' # nreq /\ "vectorstore_ready" \in DOMAIN ragResp'.body

(***************************************************************************)
(* C18: whenever the rag server answers GET /health, vectorstore_ready is  *)
(* true exactly when the index has been built, and once the knowledge base *)
(* is loaded total_documents is the number of knowledge entries of all     *)
(* categories, whatever the number of chunks.                              *)
(***************************************************************************)
C18_HealthReportsReadinessAndCount ==
    [][RagHealthStep
          => /\ ragResp'.status = 200
             /\ ragResp'.body.vectorstore_ready = (vectorstore # NullStore)
             /\ (vectorstore # NullStore) = (ragPc \in {"built", "listening"})
             /\ ragPc \in {"splitting", "embedding", "built", "listening"}
                   => ragResp'.body.total_documents = CountEntries(kbFile.cats)]_vars

\* three entries in four chunks: health reports 3
C18_Witness ==
    /\ Listening
    /\ RagAnsweredHealth
    /\ ragResp.body.vectorstore_ready
    /\ ragResp.body.total_documents = 3
    /\ Len(vectorstore.docs) = 4


\* the rag server is ready: the index has been assigned
Ready == vectorstore # NullStore

(***************************************************************************)
(* C21: the index and the document count of the rag server are written at  *)
(* most once, during startup: vectorstore changes only from null, in the    *)
(* step that builds the index, totalDocuments changes only from 0, in the   *)
(* step that loads the knowledge base, and once the service is ready every  *)
(* step, query and health requests direct or through the proxy included,    *)
(* leaves both as they are and leaves the service ready.                    *)
(***************************************************************************)
C21_ReadinessWrittenOnce ==
    [][/\ Ready => /\ Ready'
                   /\ vectorstore' = vectorstore
                   /\ totalDocuments' = totalDocuments
       /\ vectorstore' # vectorstore => ~Ready /\ ragPc = "embedding"
       /\ totalDocuments' # totalDocuments
             => ~Ready /\ totalDocuments = 0 /\ ragPc = "read"
       /\ (RagQueryStep \/ RagHealthStep \/ ragResp' # ragResp)
             => /\ vectorstore' = vectorstore
                /\ totalDocuments' = totalDocuments]_vars

\* the second request after startup ended in a failed search, and the index
\* and the count are still the ones built at startup
C21_Witness ==
    /\ Listening
    /\ nreq >= 2
    /\ ragResp.status = 500
    /\ ragSearches = 1
    /\ vectorstore = BuiltIndex
    /\ Len(vectorstore.docs) = 4
    /\ totalDocuments = 3


\* the proxy has finished a POST /api/query: a response went out before the
\* forward, or the forward was made and has settled
ProxyQueryDone ==
    /\ proxyPc = "idle"
    /\ (proxySent > 0 \/ outbound > 0 \/ axiosResult # NoAxios)

(***************************************************************************)
(* C22: every POST /api/query to the proxy gets exactly one response: while *)
(* the forward is pending nothing has been sent, a finished request has     *)
(* sent one response and never two, whichever path it took, and a pending   *)
(* forward always ends with that one response.                              *)
(***************************************************************************)
C22_ExactlyOneResponseEventually ==
    /\ [](/\ proxySent \in {0, 1}
          /\ proxyPc = "forwarding" => (proxySent = 0 /\ proxyResp = NoResp)
          /\ ProxyQueryDone => (proxySent = 1 /\ proxyResp # NoResp))
    /\ [][proxyPc = "forwarding" /\ proxyPc' # "forwarding"
             => (proxyPc' = "idle" /\ proxySent' = 1 /\ proxyResp' # NoResp)]_vars
    /\ (proxyPc = "forwarding" ~> (ProxyQueryDone /\ proxySent = 1))

\* a request whose forward timed out has been answered once, with the 504
C22_Witness ==
    /\ ProxyQueryDone
    /\ outbound = 1
    /\ axiosResult = AxiosTimeout
    /\ proxySent = 1
    /\ proxyResp = TimeoutResponse

=============================================================================
